---- MODULE Spec2Model ----
(***************************************************************************)
(* Model of the create-vite-starter scaffolding CLI (src/src/index.ts).    *)
(* One run of main() is a sequential process whose suspension points are   *)
(* the awaits of the source; the filesystem, the prompts shown, the        *)
(* external processes spawned and the lines logged are the observable      *)
(* state.                                                                  *)
(***************************************************************************)
EXTENDS Integers, Sequences, FiniteSets, TLC

VARIABLES
    fs,              \* the filesystem: absolute path -> "dir" or a file content
    tmpl,            \* the bundled template tree (TEMPLATE_DIR), read-only
    addonSrc,        \* TRUE iff <tool>/addons/routes exists
    runs,            \* number of runs of the CLI started so far
    pc,              \* position of main() in the current run
    argv2,           \* process.argv[2]
    response,        \* what the text prompt returned
    targetDir,       \* the local variable targetDir
    shouldGitInit,   \* what the first confirm returned
    shouldInstall,   \* what the second confirm returned
    useReactRouter,  \* what the third confirm returned
    packageManager,  \* the local variable packageManager
    userAgent,       \* process.env.npm_config_user_agent of this run
    probeThrew,      \* the lockfile whose probe threw during detection, "" if none
    prompts,         \* prompts shown in this run, in order
    fsCalls,         \* fs-extra calls made in this run, in order
    procs,           \* external processes spawned in this run, in order
    log,             \* consola / console lines of this run, in order
    nextSteps,       \* the lines of the next-steps block
    copied,          \* template entries the template copy wrote
    materialized,    \* the filesystem when the try block of main() ended
    fsAtStart,       \* the filesystem when this run started
    exitCode         \* exit status, meaningful when pc = "Terminal"

vars == <<fs, tmpl, addonSrc, runs, pc, argv2, response, targetDir,
          shouldGitInit, shouldInstall, useReactRouter, packageManager,
          userAgent, probeThrew, prompts, fsCalls, procs, log, nextSteps,
          copied, materialized, fsAtStart, exitCode>>

-----------------------------------------------------------------------------
(* Bounds *)

MaxRuns == 2

-----------------------------------------------------------------------------
(* Strings.  A JavaScript string whose characters matter (file names, the  *)
(* user agent) is looked up in Chars; includes and endsWith work on the    *)
(* characters.                                                             *)

Chars(s) ==
    CASE s = ""                  -> <<>>
      [] s = "vite"              -> <<"v","i","t","e">>
      [] s = "routes"            -> <<"r","o","u","t","e","s">>
      [] s = "node_modules"      -> <<"n","o","d","e","_","m","o","d","u","l","e","s">>
      [] s = "dep.js"            -> <<"d","e","p",".","j","s">>
      [] s = "package.json"      -> <<"p","a","c","k","a","g","e",".","j","s","o","n">>
      [] s = "package-lock.json" -> <<"p","a","c","k","a","g","e","-","l","o","c","k",".","j","s","o","n">>
      [] s = "git-ignore.txt"    -> <<"g","i","t","-","i","g","n","o","r","e",".","t","x","t">>
      [] s = "src"               -> <<"s","r","c">>
      [] s = "App.tsx"           -> <<"A","p","p",".","t","s","x">>
      [] s = "index.tsx"         -> <<"i","n","d","e","x",".","t","s","x">>
      [] s = "lock.json"         -> <<"l","o","c","k",".","j","s","o","n">>
      [] s = ".lock"             -> <<".","l","o","c","k">>
      [] s = ".yaml"             -> <<".","y","a","m","l">>
      [] s = "-lock.yaml"        -> <<"-","l","o","c","k",".","y","a","m","l">>
      [] s = "pnpm"              -> <<"p","n","p","m">>
      [] s = "yarn"              -> <<"y","a","r","n">>
      [] s = "bun"               -> <<"b","u","n">>
      [] s = "pnpm/8.6.0"        -> <<"p","n","p","m","/","8",".","6",".","0">>
      [] s = "yarn/1.22.19"      -> <<"y","a","r","n","/","1",".","2","2",".","1","9">>
      [] s = "bun/1.0.0"         -> <<"b","u","n","/","1",".","0",".","0">>
      [] s = "npm/10.2.4"        -> <<"n","p","m","/","1","0",".","2",".","4">>
      [] s = "npm"               -> <<"n","p","m">>
      [] s = "yarn.lock"         -> <<"y","a","r","n",".","l","o","c","k">>
      [] s = "pnpm-lock.yaml"    -> <<"p","n","p","m","-","l","o","c","k",".","y","a","m","l">>
      [] s = "bun.lock"          -> <<"b","u","n",".","l","o","c","k">>
      [] s = "config.yaml"       -> <<"c","o","n","f","i","g",".","y","a","m","l">>

\* String.prototype.endsWith
EndsWith(s, suffix) ==
    LET c == Chars(s)
        x == Chars(suffix)
    IN  /\ Len(x) <= Len(c)
        /\ SubSeq(c, Len(c) - Len(x) + 1, Len(c)) = x

\* String.prototype.includes, on the characters
IncludesChars(s, sub) ==
    LET c == Chars(s)
        x == Chars(sub)
    IN  \E i \in 0..(Len(c) - Len(x)) : SubSeq(c, i + 1, i + Len(x)) = x

\* what process.env.npm_config_user_agent may be; "" stands for unset
UserAgents == {"", "pnpm/8.6.0", "yarn/1.22.19", "bun/1.0.0", "npm/10.2.4"}

\* the substrings lines 21-23 look for
Hints == {"pnpm", "yarn", "bun"}

\* includes for every user agent and hint, computed once
IncludesTable == [s \in UserAgents |-> [sub \in Hints |-> IncludesChars(s, sub)]]

\* userAgent.includes(sub)
Includes(s, sub) == IncludesTable[s][sub]

-----------------------------------------------------------------------------
(* Paths.  A path is the sequence of its segments; an absolute path starts *)
(* with the segment "/".                                                   *)

Cwd == <<"/", "work">>

IsAbsolute(p) == Len(p) > 0 /\ p[1] = "/"

RECURSIVE DropDots(_)
DropDots(p) ==
    IF p = <<>> THEN <<>>
    ELSE IF Head(p) = "." THEN DropDots(Tail(p))
    ELSE <<Head(p)>> \o DropDots(Tail(p))

\* line 52, as a mutant would have it: the path is used as given
Resolve_Mut(p) == p

\* path.resolve(p): an absolute path, relative input taken against the cwd
Resolve(p) == IF IsAbsolute(p) THEN DropDots(p) ELSE Cwd \o DropDots(p)

\* path.relative(from, to), for `to` at or below `from`
Relative(from, to) == SubSeq(to, Len(from) + 1, Len(to))

\* path.join(dir, names...)
Join(dir, rel) == dir \o rel

\* path.basename
Basename(p) == p[Len(p)]

IsPrefix(p, q) == Len(p) <= Len(q) /\ SubSeq(q, 1, Len(p)) = p

-----------------------------------------------------------------------------
(* The filesystem *)

Dir == "dir"

PathExists(f, p) == p \in DOMAIN f

\* fs.readdir: the names directly under p
Readdir(f, p) == { q[Len(q)] : q \in { r \in DOMAIN f : Len(r) = Len(p) + 1 /\ IsPrefix(p, r) } }

IsNonEmptyDir(f, p) == PathExists(f, p) /\ f[p] = Dir /\ Readdir(f, p) # {}

Put(f, p, c) == [q \in DOMAIN f \cup {p} |-> IF q = p THEN c ELSE f[q]]

\* fs.ensureDir / mkdirs: p and its missing ancestors become directories
EnsureDir(f, p) ==
    LET anc == { SubSeq(p, 1, n) : n \in Len(Cwd)..Len(p) }
    IN  [q \in DOMAIN f \cup anc |-> IF q \in DOMAIN f THEN f[q] ELSE Dir]

\* line 113, as a mutant would have it: the staged file is not removed
Remove_Mut(f, p) == f

\* fs.remove: p and everything below it
Remove(f, p) == [q \in { r \in DOMAIN f : ~IsPrefix(p, r) } |-> f[q]]

\* the subtree of f below root, as relative path -> content
Subtree(f, root) ==
    [r \in { Relative(root, q) : q \in { x \in DOMAIN f : IsPrefix(root, x) /\ x # root } }
        |-> f[Join(root, r)]]

-----------------------------------------------------------------------------
(* Template copy *)

TEMPLATE_DIR == <<"/", "tool", "templates", "vite">>

RouterSourcePath == <<"/", "tool", "addons", "routes">>

\* lines 91-101, as a mutant would have it: only the lockfile suffixes
ShouldCopy_Mut(src) ==
    LET filename == Basename(src)
    IN  /\ filename # "node_modules"
        /\ ~EndsWith(filename, "lock.json")
        /\ ~EndsWith(filename, ".lock")
        /\ ~EndsWith(filename, "-lock.yaml")

\* the filter passed to fs.copy
ShouldCopy(src) ==
    LET filename == Basename(src)
    IN  /\ filename # "node_modules"
        /\ ~EndsWith(filename, "lock.json")
        /\ ~EndsWith(filename, ".lock")
        /\ ~EndsWith(filename, ".yaml")

\* line 123, as a mutant would have it: the addon copy reuses the template filter
NoFilter_Mut(src) == ShouldCopy(src)

\* the addon copy passes no filter
NoFilter(src) == TRUE

Children(tree, rel) == { r \in DOMAIN tree : Len(r) = Len(rel) + 1 /\ IsPrefix(rel, r) }

\* fs.copy walking directory rel of the tree rooted at srcRoot: an entry the
\* filter rejects is skipped and, when a directory, not descended into
RECURSIVE CopyWalk(_, _, _, _)

\* fs.copy, as a mutant would have it: every entry of the tree is judged by
\* its own name alone, none is left out because of the directory it is in
CopyWalk_Mut(tree, srcRoot, rel, filtered) ==
    { r \in DOMAIN tree :
        IF filtered THEN ShouldCopy(Join(srcRoot, r)) ELSE NoFilter(Join(srcRoot, r)) }

CopyWalk(tree, srcRoot, rel, filtered) ==
    LET kept == { c \in Children(tree, rel) :
                    IF filtered THEN ShouldCopy(Join(srcRoot, c)) ELSE NoFilter(Join(srcRoot, c)) }
    IN  kept \cup UNION { IF tree[c] = Dir THEN CopyWalk(tree, srcRoot, c, filtered) ELSE {}
                          : c \in kept }

\* the entries fs.copy(srcRoot, dest, {filter}) writes when it completes;
\* the filter is asked about srcRoot itself first
CopySet(tree, srcRoot, filtered) ==
    IF filtered /\ ~ShouldCopy(srcRoot) THEN {} ELSE CopyWalk(tree, srcRoot, <<>>, filtered)

\* a set of entries a copy may have written when it fails: every entry
\* written has its parent directory written
ParentClosed(S) == \A r \in S : Len(r) > 1 => SubSeq(r, 1, Len(r) - 1) \in S

\* the filesystem after the entries S of tree were written under dest
CopyInto(f, tree, dest, S) ==
    LET g == EnsureDir(f, dest)
        W == { Join(dest, r) : r \in S }
    IN  [q \in DOMAIN g \cup W |-> IF q \in W THEN tree[Relative(dest, q)] ELSE g[q]]

-----------------------------------------------------------------------------
(* Package manager detection *)

PackageManagers == {"npm", "yarn", "pnpm", "bun"}

LockExists(f, name) == PathExists(f, Resolve(<<name>>))

\* lines 26-33, as a mutant would have it: yarn.lock is probed before pnpm-lock.yaml
DetectLockfile_Mut(f, thr) ==
    IF "yarn.lock" \in thr THEN "npm"
    ELSE IF LockExists(f, "yarn.lock") THEN "yarn"
    ELSE IF "pnpm-lock.yaml" \in thr THEN "npm"
    ELSE IF LockExists(f, "pnpm-lock.yaml") THEN "pnpm"
    ELSE IF "bun.lock" \in thr THEN "npm"
    ELSE IF LockExists(f, "bun.lock") THEN "bun"
    ELSE "npm"

\* the try block of detectPackageManager; thr is the set of lockfile names
\* whose probe throws
DetectLockfile(f, thr) ==
    IF "pnpm-lock.yaml" \in thr THEN "npm"
    ELSE IF LockExists(f, "pnpm-lock.yaml") THEN "pnpm"
    ELSE IF "yarn.lock" \in thr THEN "npm"
    ELSE IF LockExists(f, "yarn.lock") THEN "yarn"
    ELSE IF "bun.lock" \in thr THEN "npm"
    ELSE IF LockExists(f, "bun.lock") THEN "bun"
    ELSE "npm"

HintMatches(ua) == Includes(ua, "pnpm") \/ Includes(ua, "yarn") \/ Includes(ua, "bun")

\* lines 18-34, as a mutant would have it: the lockfiles are probed first
detectPackageManager_Mut(ua, f, thr) ==
    IF DetectLockfile(f, thr) # "npm" THEN DetectLockfile(f, thr)
    ELSE IF Includes(ua, "pnpm") THEN "pnpm"
    ELSE IF Includes(ua, "yarn") THEN "yarn"
    ELSE IF Includes(ua, "bun") THEN "bun"
    ELSE "npm"

detectPackageManager(ua, f, thr) ==
    IF Includes(ua, "pnpm") THEN "pnpm"
    ELSE IF Includes(ua, "yarn") THEN "yarn"
    ELSE IF Includes(ua, "bun") THEN "bun"
    ELSE DetectLockfile(f, thr)

\* the lockfile whose probe threw, which is the last probe made; "" if none did
FirstThrown(ua, f, thr) ==
    IF HintMatches(ua) THEN ""
    ELSE IF "pnpm-lock.yaml" \in thr THEN "pnpm-lock.yaml"
    ELSE IF LockExists(f, "pnpm-lock.yaml") THEN ""
    ELSE IF "yarn.lock" \in thr THEN "yarn.lock"
    ELSE IF LockExists(f, "yarn.lock") THEN ""
    ELSE IF "bun.lock" \in thr THEN "bun.lock"
    ELSE ""

\* the fs.pathExists calls detectPackageManager makes
ProbeCalls(ua, f, thr) ==
    LET call(name) == [op |-> "pathExists", path |-> <<name>>]
    IN  IF HintMatches(ua) THEN <<>>
        ELSE IF "pnpm-lock.yaml" \in thr \/ LockExists(f, "pnpm-lock.yaml")
             THEN <<call("pnpm-lock.yaml")>>
        ELSE IF "yarn.lock" \in thr \/ LockExists(f, "yarn.lock")
             THEN <<call("pnpm-lock.yaml"), call("yarn.lock")>>
        ELSE <<call("pnpm-lock.yaml"), call("yarn.lock"), call("bun.lock")>>

-----------------------------------------------------------------------------
(* Prompt results and JavaScript truthiness *)

Str(v) == [kind |-> "string", value |-> v]
Undefined == [kind |-> "undefined", value |-> <<>>]
CancelSymbol == [kind |-> "symbol", value |-> <<>>]
Bool(b) == [kind |-> "boolean", value |-> IF b THEN <<"true">> ELSE <<>>]

\* line 117, as a mutant would have it: any answer but undefined counts
Truthy_Mut(v) == v.kind # "undefined"

\* !!v : undefined, "" and false are falsy; a symbol is truthy
Truthy(v) ==
    CASE v.kind = "undefined" -> FALSE
      [] v.kind = "string"    -> v.value # <<>>
      [] v.kind = "boolean"   -> v.value # <<>>
      [] v.kind = "symbol"    -> TRUE

\* what process.argv[2] may be
Argv2Values == {Undefined, Str(<<".">>), Str(<<"my-project">>)}

\* what text() may resolve to: the typed path, the empty value when the
\* prompt is submitted without typing, or the cancel symbol
TextResponses == {Str(<<".">>), Str(<<"my-project">>), Str(<<>>), CancelSymbol}

\* what confirm() may resolve to
ConfirmResponses == {Bool(TRUE), Bool(FALSE), CancelSymbol}

LockfileNames == {"pnpm-lock.yaml", "yarn.lock", "bun.lock"}

-----------------------------------------------------------------------------
(* Install commands *)

\* lines 164-186, as a mutant would have it: bun's dev flag written as -D
InstallCommands_Mut(pm, router) ==
    LET installCommand == IF pm = "yarn" THEN "add" ELSE "install"
        base == <<pm, installCommand>>
    IN  IF ~Truthy(router) THEN <<base>>
        ELSE IF pm = "yarn" THEN
            <<base, <<"yarn", "add", "react-router">>,
                    <<"yarn", "add", "-D", "@types/react-router">>>>
        ELSE IF pm = "pnpm" THEN
            <<base, <<"pnpm", "add", "react-router">>,
                    <<"pnpm", "add", "-D", "@types/react-router">>>>
        ELSE IF pm = "bun" THEN
            <<base, <<"bun", "add", "react-router">>,
                    <<"bun", "add", "-D", "@types/react-router">>>>
        ELSE
            <<base, <<"npm", "install", "react-router">>,
                    <<"npm", "install", "--save-dev", "@types/react-router">>>>

\* the commands the install block issues, in order, if none fails
InstallCommands(pm, router) ==
    LET installCommand == IF pm = "yarn" THEN "add" ELSE "install"
        base == <<pm, installCommand>>
    IN  IF ~Truthy(router) THEN <<base>>
        ELSE IF pm = "yarn" THEN
            <<base, <<"yarn", "add", "react-router">>,
                    <<"yarn", "add", "-D", "@types/react-router">>>>
        ELSE IF pm = "pnpm" THEN
            <<base, <<"pnpm", "add", "react-router">>,
                    <<"pnpm", "add", "-D", "@types/react-router">>>>
        ELSE IF pm = "bun" THEN
            <<base, <<"bun", "add", "react-router">>,
                    <<"bun", "add", "-d", "@types/react-router">>>>
        ELSE
            <<base, <<"npm", "install", "react-router">>,
                    <<"npm", "install", "--save-dev", "@types/react-router">>>>

\* lines 199-213, as a mutant would have it: the manager to print is detected
\* again when the block is printed
NextStepLines_Mut(target, pm, install, router) ==
    LET again == detectPackageManager(userAgent, fs, {})
    IN  (IF target # <<".">> THEN <<<<"cd">> \o Relative(Cwd, target)>> ELSE <<>>)
        \o (IF ~Truthy(install) THEN <<<<again, "install">>>>
            ELSE IF again = "pnpm" THEN <<<<"pnpm", "approve-builds">>>> ELSE <<>>)
        \o <<<<again, "run", "dev">>>>

\* the next-steps block
NextStepLines(target, pm, install, router) ==
    (IF target # <<".">> THEN <<<<"cd">> \o Relative(Cwd, target)>> ELSE <<>>)
    \o (IF ~Truthy(install)
        THEN <<<<pm, "install">>>>
             \o (IF Truthy(router)
                 THEN << <<pm, IF pm = "yarn" THEN "add" ELSE "install", "react-router">>,
                         <<pm>> \o (IF pm = "yarn" THEN <<"add", "-D">>
                                    ELSE IF pm = "bun" THEN <<"add", "-d">>
                                    ELSE <<"install", "--save-dev">>)
                                \o <<"@types/react-router">> >>
                 ELSE <<>>)
        ELSE IF pm = "pnpm" THEN <<<<"pnpm", "approve-builds">>>> ELSE <<>>)
    \o <<<<pm, "run", "dev">>>>

-----------------------------------------------------------------------------
(* Initial states *)

\* the bundled template, without and with the staged ignore file
TemplateBase ==
    (<<"package.json">> :> "T_package_json")
    @@ (<<"package-lock.json">> :> "T_package_lock")
    @@ (<<"src">> :> Dir)
    @@ (<<"src", "App.tsx">> :> "T_App_tsx")
    @@ (<<"node_modules">> :> Dir)
    @@ (<<"node_modules", "dep.js">> :> "T_dep_js")
    @@ (<<"yarn.lock">> :> "T_yarn_lock")
    @@ (<<"pnpm-lock.yaml">> :> "T_pnpm_lock")
    @@ (<<"bun.lock">> :> "T_bun_lock")
    @@ (<<"config.yaml">> :> "T_config_yaml")
    @@ (<<"src", "config.yaml">> :> "T_src_config_yaml")
    @@ (<<"src", "node_modules">> :> Dir)
    @@ (<<"src", "node_modules", "dep.js">> :> "T_src_dep_js")

Templates == {TemplateBase, TemplateBase @@ (<<"git-ignore.txt">> :> "T_gitignore")}

\* the bundled addons/routes subtree, when it exists
AddonTree == (<<"index.tsx">> :> "R_index_tsx") @@ (<<"config.yaml">> :> "R_config_yaml")

\* the fixed body written to src/App.tsx
NewAppContent == "import { AppRouter } from './routes'"

\* what a completed fs.copy of lines 90-102 writes, for each bundled template
TemplateEntries == [t \in Templates |-> CopySet(t, TEMPLATE_DIR, TRUE)]

ProjectDir == Join(Cwd, <<"my-project">>)

\* what may be at <cwd>/my-project before the first run
ProjectStates ==
    { <<>>,
      (ProjectDir :> Dir),
      (ProjectDir :> Dir) @@ (Join(ProjectDir, <<"old.txt">>) :> "old"),
      (ProjectDir :> "a file") }

InitialFilesystems ==
    { (Cwd :> Dir) @@ [p \in { Join(Cwd, <<n>>) : n \in L } |-> "lockfile"] @@ proj :
        L \in SUBSET LockfileNames, proj \in ProjectStates }

\* the state of a run that has not started
FreshRun ==
    /\ pc = "ReadArgv"
    /\ argv2 = Undefined
    /\ response = Undefined
    /\ targetDir = <<>>
    /\ shouldGitInit = Undefined
    /\ shouldInstall = Undefined
    /\ useReactRouter = Undefined
    /\ packageManager = ""
    /\ userAgent = ""
    /\ probeThrew = ""
    /\ prompts = <<>>
    /\ fsCalls = <<>>
    /\ procs = <<>>
    /\ log = <<>>
    /\ nextSteps = <<>>
    /\ copied = {}
    /\ materialized = <<>>
    /\ exitCode = 0

Init ==
    /\ fs \in InitialFilesystems
    /\ tmpl \in Templates
    /\ addonSrc \in BOOLEAN
    /\ runs = 1
    /\ fsAtStart = fs
    /\ FreshRun

-----------------------------------------------------------------------------
(* main() *)

Call(op, path) == [op |-> op, path |-> path]

Line(level, msg) == [level |-> level, msg |-> msg]

WriteOps == {"ensureDir", "copy", "writeFile", "remove"}

\* the paths this run passed to a writing fs call
Writes == { fsCalls[i].path : i \in { j \in DOMAIN fsCalls : fsCalls[j].op \in WriteOps } }

\* line 47, as a mutant would have it: only the cancel symbol exits
Cancelled_Mut(r) == r.kind = "symbol"

\* line 47: !response || typeof response === "symbol"
Cancelled(r) == ~Truthy(r) \/ r.kind = "symbol"

\* line 57, as a mutant would have it: a single entry is tolerated
DirectoryConflict_Mut(f, target) == Cardinality(Readdir(f, target)) > 1

\* lines 56-57: files.length > 0
DirectoryConflict(f, target) == Cardinality(Readdir(f, target)) > 0

\* lines 141-145, as a mutant would have it: the catch does not exit
CatchCreateError_Mut(msg) ==
    /\ log' = Append(log, Line("error", msg))
    /\ pc' = "GitInit"
    /\ UNCHANGED exitCode

\* lines 141-145: the catch of the try block: consola.error, process.exit(1)
CatchCreateError(msg) ==
    /\ log' = Append(log, Line("error", msg))
    /\ pc' = "Terminal"
    /\ exitCode' = 1

\* lines 41-42: targetDir = process.argv[2]
ReadArgv ==
    /\ pc = "ReadArgv"
    /\ \E a \in Argv2Values :
        /\ argv2' = a
        /\ targetDir' = a.value
        /\ pc' = IF ~Truthy(a) THEN "AskTarget" ELSE "ResolveTarget"
    /\ UNCHANGED <<fs, tmpl, addonSrc, runs, response, shouldGitInit,
                   shouldInstall, useReactRouter, packageManager, userAgent, probeThrew,
                   prompts, fsCalls, procs, log, nextSteps, copied,
                   materialized, fsAtStart, exitCode>>

\* lines 43-48: the text prompt; process.exit(1) on an empty or cancelled answer
AskTarget ==
    /\ pc = "AskTarget"
    /\ \E r \in TextResponses :
        /\ response' = r
        /\ prompts' = Append(prompts, "target")
        /\ IF Cancelled(r)
           THEN /\ pc' = "Terminal"
                /\ exitCode' = 1
                /\ UNCHANGED targetDir
           ELSE /\ pc' = "ResolveTarget"
                /\ targetDir' = r.value
                /\ UNCHANGED exitCode
    /\ UNCHANGED <<fs, tmpl, addonSrc, runs, argv2, shouldGitInit,
                   shouldInstall, useReactRouter, packageManager, userAgent, probeThrew,
                   fsCalls, procs, log, nextSteps, copied, materialized,
                   fsAtStart>>

\* line 52
ResolveTarget ==
    /\ pc = "ResolveTarget"
    /\ targetDir' = Resolve(targetDir)
    /\ pc' = "ValidateTarget"
    /\ UNCHANGED <<fs, tmpl, addonSrc, runs, argv2, response,
                   shouldGitInit, shouldInstall, useReactRouter,
                   packageManager, userAgent, probeThrew, prompts, fsCalls, procs, log,
                   nextSteps, copied, materialized, fsAtStart, exitCode>>

\* lines 55-63; readdir of a path that is not a directory rejects, which
\* nothing in main() catches: line 216 prints the error and node exits 0
ValidateTarget ==
    /\ pc = "ValidateTarget"
    /\ IF ~PathExists(fs, targetDir)
       THEN /\ fsCalls' = Append(fsCalls, Call("pathExists", targetDir))
            /\ pc' = "EnsureDir"
            /\ UNCHANGED <<log, exitCode>>
       ELSE /\ fsCalls' = fsCalls \o <<Call("pathExists", targetDir), Call("readdir", targetDir)>>
            /\ IF fs[targetDir] # Dir
               THEN /\ log' = Append(log, Line("console.error", "readdir"))
                    /\ pc' = "Terminal"
                    /\ exitCode' = 0
               ELSE IF DirectoryConflict(fs, targetDir)
               THEN /\ log' = Append(log, Line("error", "Aborting"))
                    /\ pc' = "Terminal"
                    /\ exitCode' = 1
               ELSE /\ pc' = "EnsureDir"
                    /\ UNCHANGED <<log, exitCode>>
    /\ UNCHANGED <<fs, tmpl, addonSrc, runs, argv2, response, targetDir,
                   shouldGitInit, shouldInstall, useReactRouter,
                   packageManager, userAgent, probeThrew, prompts, procs, nextSteps,
                   copied, materialized, fsAtStart>>

\* line 65; a rejection is not caught in main()
EnsureTargetDir ==
    /\ pc = "EnsureDir"
    /\ fsCalls' = Append(fsCalls, Call("ensureDir", targetDir))
    /\ \E ok \in BOOLEAN :
        IF ok
        THEN /\ fs' = EnsureDir(fs, targetDir)
             /\ pc' = "AskGitInit"
             /\ UNCHANGED <<log, exitCode>>
        ELSE /\ log' = Append(log, Line("console.error", "ensureDir"))
             /\ pc' = "Terminal"
             /\ exitCode' = 0
             /\ UNCHANGED fs
    /\ UNCHANGED <<tmpl, addonSrc, runs, argv2, response, targetDir,
                   shouldGitInit, shouldInstall, useReactRouter,
                   packageManager, userAgent, probeThrew, prompts, procs, nextSteps,
                   copied, materialized, fsAtStart>>

\* lines 68-70
AskGitInit ==
    /\ pc = "AskGitInit"
    /\ \E r \in ConfirmResponses : shouldGitInit' = r
    /\ prompts' = Append(prompts, "gitInit")
    /\ pc' = "AskInstall"
    /\ UNCHANGED <<fs, tmpl, addonSrc, runs, argv2, response, targetDir,
                   shouldInstall, useReactRouter, packageManager, userAgent, probeThrew,
                   fsCalls, procs, log, nextSteps, copied, materialized,
                   fsAtStart, exitCode>>

\* lines 73-75
AskInstall ==
    /\ pc = "AskInstall"
    /\ \E r \in ConfirmResponses : shouldInstall' = r
    /\ prompts' = Append(prompts, "install")
    /\ pc' = "AskReactRouter"
    /\ UNCHANGED <<fs, tmpl, addonSrc, runs, argv2, response, targetDir,
                   shouldGitInit, useReactRouter, packageManager, userAgent, probeThrew,
                   fsCalls, procs, log, nextSteps, copied, materialized,
                   fsAtStart, exitCode>>

\* lines 78-80
AskReactRouter ==
    /\ pc = "AskReactRouter"
    /\ \E r \in ConfirmResponses : useReactRouter' = r
    /\ prompts' = Append(prompts, "reactRouter")
    /\ pc' = "Detect"
    /\ UNCHANGED <<fs, tmpl, addonSrc, runs, argv2, response, targetDir,
                   shouldGitInit, shouldInstall, packageManager, userAgent, probeThrew,
                   fsCalls, procs, log, nextSteps, copied, materialized,
                   fsAtStart, exitCode>>

\* line 83
Detect ==
    /\ pc = "Detect"
    /\ \E ua \in UserAgents, thr \in SUBSET LockfileNames :
        /\ userAgent' = ua
        /\ probeThrew' = FirstThrown(ua, fs, thr)
        /\ packageManager' = detectPackageManager(ua, fs, thr)
        /\ fsCalls' = fsCalls \o ProbeCalls(ua, fs, thr)
    /\ pc' = "CopyTemplate"
    /\ UNCHANGED <<fs, tmpl, addonSrc, runs, argv2, response, targetDir,
                   shouldGitInit, shouldInstall, useReactRouter, prompts,
                   procs, log, nextSteps, copied, materialized, fsAtStart,
                   exitCode>>

\* lines 89-102; a rejection leaves whatever was written so far and is
\* caught at lines 141-145: consola.error, process.exit(1)
CopyTemplate ==
    /\ pc = "CopyTemplate"
    /\ fsCalls' = Append(fsCalls, Call("copy", targetDir))
    /\ LET all == TemplateEntries[tmpl]
       IN  \/ /\ copied' = all
              /\ fs' = CopyInto(fs, tmpl, targetDir, copied')
              /\ pc' = "GitignoreFixup"
              /\ UNCHANGED <<log, exitCode>>
           \/ /\ copied' \in { S \in SUBSET all : ParentClosed(S) }
              /\ fs' = CopyInto(fs, tmpl, targetDir, copied')
              /\ CatchCreateError("copy")
    /\ UNCHANGED <<tmpl, addonSrc, runs, argv2, response, targetDir,
                   shouldGitInit, shouldInstall, useReactRouter,
                   packageManager, userAgent, probeThrew, prompts, procs, nextSteps,
                   materialized, fsAtStart>>

\* lines 104-114, inside the same try block
GitignoreFixup ==
    /\ pc = "GitignoreFixup"
    /\ LET sourceGitignoreTxtPath == Join(targetDir, <<"git-ignore.txt">>)
           targetGitignorePath == Join(targetDir, <<".gitignore">>)
           probe == Call("pathExists", sourceGitignoreTxtPath)
           read == Call("readFile", sourceGitignoreTxtPath)
           write == Call("writeFile", targetGitignorePath)
           remove == Call("remove", sourceGitignoreTxtPath)
           written == Put(fs, targetGitignorePath, fs[sourceGitignoreTxtPath])
       IN  IF ~PathExists(fs, sourceGitignoreTxtPath)
           THEN /\ fsCalls' = Append(fsCalls, probe)
                /\ pc' = "InjectAddon"
                /\ UNCHANGED <<fs, log, exitCode>>
           ELSE \/ /\ fsCalls' = fsCalls \o <<probe, read, write, remove>>
                   /\ fs' = Remove(written, sourceGitignoreTxtPath)
                   /\ pc' = "InjectAddon"
                   /\ UNCHANGED <<log, exitCode>>
                \/ /\ \/ /\ fsCalls' = fsCalls \o <<probe, read>>
                         /\ UNCHANGED fs
                      \/ /\ fsCalls' = fsCalls \o <<probe, read, write>>
                         /\ UNCHANGED fs
                      \/ /\ fsCalls' = fsCalls \o <<probe, read, write, remove>>
                         /\ fs' = written
                   /\ CatchCreateError("fixup")
    /\ UNCHANGED <<tmpl, addonSrc, runs, argv2, response, targetDir,
                   shouldGitInit, shouldInstall, useReactRouter,
                   packageManager, userAgent, probeThrew, prompts, procs, nextSteps,
                   copied, materialized, fsAtStart>>

\* lines 117-140, inside the same try block, and its catch at lines 141-145
InjectAddon ==
    /\ pc = "InjectAddon"
    /\ LET routerTargetPath == Join(targetDir, <<"src", "routes">>)
           appTsxPath == Join(targetDir, <<"src", "App.tsx">>)
           probe == Call("pathExists", RouterSourcePath)
           copy == Call("copy", routerTargetPath)
           write == Call("writeFile", appTsxPath)
           all == CopySet(AddonTree, RouterSourcePath, FALSE)
           injected == CopyInto(fs, AddonTree, routerTargetPath, all)
       IN  IF ~Truthy(useReactRouter)
           THEN /\ pc' = "GitInit"
                /\ materialized' = fs
                /\ UNCHANGED <<fs, fsCalls, log, exitCode>>
           ELSE IF ~addonSrc
           THEN /\ fsCalls' = Append(fsCalls, probe)
                /\ log' = Append(log, Line("warn", "Router template not found"))
                /\ pc' = "GitInit"
                /\ materialized' = fs
                /\ UNCHANGED <<fs, exitCode>>
           ELSE \/ /\ fsCalls' = fsCalls \o <<probe, copy, write>>
                   /\ fs' = Put(injected, appTsxPath, NewAppContent)
                   /\ pc' = "GitInit"
                   /\ materialized' = fs'
                   /\ UNCHANGED <<log, exitCode>>
                \/ /\ \/ /\ fsCalls' = fsCalls \o <<probe, copy>>
                         /\ \/ UNCHANGED fs
                            \/ \E S \in SUBSET all :
                                 /\ ParentClosed(S)
                                 /\ fs' = CopyInto(fs, AddonTree, routerTargetPath, S)
                      \/ /\ fsCalls' = fsCalls \o <<probe, copy, write>>
                         /\ fs' = injected
                   /\ CatchCreateError("addon")
                   /\ UNCHANGED materialized
    /\ UNCHANGED <<tmpl, addonSrc, runs, argv2, response, targetDir,
                   shouldGitInit, shouldInstall, useReactRouter,
                   packageManager, userAgent, probeThrew, prompts, procs, nextSteps,
                   copied, fsAtStart>>

-----------------------------------------------------------------------------
(* External processes *)

Proc(cmd, cwd, status) == [cmd |-> cmd, cwd |-> cwd, status |-> status]

\* the await of lines 151 and 168-184, as a mutant would have it: main() goes
\* on while the process it spawned is still running
Settle_Mut(ps, status) == ps

\* the last process spawned, with its status replaced
Settle(ps, status) == [ps EXCEPT ![Len(ps)].status = status]

IsInstall(p) == p.cmd[1] # "git"

\* the install commands spawned so far in this run
InstallProcs == SelectSeq(procs, IsInstall)

\* lines 148-151: spawn `git init <targetDir>`, or skip the step
GitInitStart ==
    /\ pc = "GitInit"
    /\ IF Truthy(shouldGitInit)
       THEN /\ procs' = Append(procs, Proc(<<"git", "init", targetDir>>, Cwd, "running"))
            /\ pc' = "GitInitWait"
       ELSE /\ pc' = "Install"
            /\ UNCHANGED procs
    /\ UNCHANGED <<fs, tmpl, addonSrc, runs, argv2, response, targetDir,
                   shouldGitInit, shouldInstall, useReactRouter,
                   packageManager, userAgent, probeThrew, prompts, fsCalls, log,
                   nextSteps, copied, materialized, fsAtStart, exitCode>>

\* lines 153-156, as a mutant would have it: a failed git init is tried once
\* more
CatchGitError_Retry ==
    /\ log' = Append(log, Line("error", "git"))
    /\ pc' = IF Len(procs) < 2 THEN "GitInit" ELSE "Install"
    /\ UNCHANGED exitCode

\* lines 153-156, as a mutant would have it: a git failure ends the run
CatchGitError_Mut ==
    /\ log' = Append(log, Line("error", "git"))
    /\ pc' = "Terminal"
    /\ exitCode' = 1

\* lines 153-156: the catch of git init: consola.error, then on to line 160
CatchGitError ==
    /\ log' = Append(log, Line("error", "git"))
    /\ pc' = "Install"
    /\ UNCHANGED exitCode

\* lines 151-156: git exits; a failure is logged and the run goes on
GitInitExit ==
    /\ pc = "GitInitWait"
    /\ \E ok \in BOOLEAN :
        IF ok
        THEN /\ procs' = Settle(procs, "ok")
             /\ fs' = Put(fs, Join(targetDir, <<".git">>), Dir)
             /\ pc' = "Install"
             /\ UNCHANGED <<log, exitCode>>
        ELSE /\ procs' = Settle(procs, "failed")
             /\ CatchGitError
             /\ UNCHANGED fs
    /\ UNCHANGED <<tmpl, addonSrc, runs, argv2, response, targetDir,
                   shouldGitInit, shouldInstall, useReactRouter,
                   packageManager, userAgent, probeThrew, prompts, fsCalls, nextSteps,
                   copied, materialized, fsAtStart>>

\* lines 160-168: spawn the base install command, or skip the step
InstallStart ==
    /\ pc = "Install"
    /\ IF Truthy(shouldInstall)
       THEN /\ log' = Append(log, Line("info", "Detected package manager"))
            /\ procs' = Append(procs,
                  Proc(InstallCommands(packageManager, useReactRouter)[1], targetDir, "running"))
            /\ pc' = "InstallWait"
       ELSE /\ pc' = "Report"
            /\ UNCHANGED <<procs, log>>
    /\ UNCHANGED <<fs, tmpl, addonSrc, runs, argv2, response, targetDir,
                   shouldGitInit, shouldInstall, useReactRouter,
                   packageManager, userAgent, probeThrew, prompts, fsCalls, nextSteps,
                   copied, materialized, fsAtStart, exitCode>>

\* lines 164-189, as a mutant would have it: every command has a try of its own
InstallContinues_Mut(ok, n, plan) == n < Len(plan)

\* lines 164-189: the n-th command of the block exited; the next one is
\* awaited only if it did not throw and the block has one
InstallContinues(ok, n, plan) == ok /\ n < Len(plan)

\* lines 168-192: the running install command exits; on success the next
\* command of the block is spawned, on failure the catch logs and the block
\* is left
InstallExit ==
    /\ pc = "InstallWait"
    /\ LET plan == InstallCommands(packageManager, useReactRouter)
           n == Len(InstallProcs)
       IN  \E ok \in BOOLEAN :
            LET settled == Settle(procs, IF ok THEN "ok" ELSE "failed")
            IN  /\ log' = IF ok THEN log ELSE Append(log, Line("error", "install"))
                /\ fs' = IF ok /\ n = 1
                          THEN Put(fs, Join(targetDir, <<"node_modules">>), Dir)
                          ELSE fs
                /\ IF InstallContinues(ok, n, plan)
                   THEN /\ procs' = Append(settled, Proc(plan[n + 1], targetDir, "running"))
                        /\ pc' = "InstallWait"
                   ELSE /\ procs' = settled
                        /\ pc' = "Report"
    /\ UNCHANGED <<tmpl, addonSrc, runs, argv2, response, targetDir,
                   shouldGitInit, shouldInstall, useReactRouter,
                   packageManager, userAgent, probeThrew, prompts, fsCalls, nextSteps,
                   copied, materialized, fsAtStart, exitCode>>

\* lines 196-214: outro and the next-steps block; main() returns, exit code 0
Report ==
    /\ pc = "Report"
    /\ log' = Append(log, Line("info", "Next steps:"))
    /\ nextSteps' = NextStepLines(targetDir, packageManager, shouldInstall, useReactRouter)
    /\ pc' = "Terminal"
    /\ exitCode' = 0
    /\ UNCHANGED <<fs, tmpl, addonSrc, runs, argv2, response, targetDir,
                   shouldGitInit, shouldInstall, useReactRouter,
                   packageManager, userAgent, probeThrew, prompts, fsCalls, procs, copied,
                   materialized, fsAtStart>>

\* the user runs the CLI again in the same working directory
NewRun ==
    /\ pc = "Terminal"
    /\ runs < MaxRuns
    /\ runs' = runs + 1
    /\ fsAtStart' = fs
    /\ pc' = "ReadArgv"
    /\ argv2' = Undefined
    /\ response' = Undefined
    /\ targetDir' = <<>>
    /\ shouldGitInit' = Undefined
    /\ shouldInstall' = Undefined
    /\ useReactRouter' = Undefined
    /\ packageManager' = ""
    /\ userAgent' = ""
    /\ probeThrew' = ""
    /\ prompts' = <<>>
    /\ fsCalls' = <<>>
    /\ procs' = <<>>
    /\ log' = <<>>
    /\ nextSteps' = <<>>
    /\ copied' = {}
    /\ materialized' = <<>>
    /\ exitCode' = 0
    /\ UNCHANGED <<fs, tmpl, addonSrc>>

-----------------------------------------------------------------------------
(* Specifications *)

Main ==
    \/ ReadArgv
    \/ AskTarget
    \/ ResolveTarget
    \/ ValidateTarget
    \/ EnsureTargetDir
    \/ AskGitInit
    \/ AskInstall
    \/ AskReactRouter
    \/ Detect
    \/ CopyTemplate
    \/ GitignoreFixup
    \/ InjectAddon
    \/ GitInitStart
    \/ GitInitExit
    \/ InstallStart
    \/ InstallExit
    \/ Report

Next == Main

\* one run of the CLI from any initial filesystem
Spec == Init /\ [][Next]_vars

\* up to MaxRuns runs, one after the other, in a working directory that is
\* empty before the first
InitRerun ==
    /\ fs = (Cwd :> Dir)
    /\ tmpl \in Templates
    /\ addonSrc \in BOOLEAN
    /\ runs = 1
    /\ fsAtStart = fs
    /\ FreshRun

NextRerun == Main \/ NewRun

SpecRerun == InitRerun /\ [][NextRerun]_vars

\* the runs checked for termination start in a working directory that holds
\* no lockfile, with each of the project states; the four managers are still
\* detected, from the hint, and the steps of main() are the same for each
InitLive ==
    /\ fs \in { (Cwd :> Dir) @@ proj : proj \in ProjectStates }
    /\ tmpl \in Templates
    /\ addonSrc \in BOOLEAN
    /\ runs = 1
    /\ fsAtStart = fs
    /\ FreshRun

\* one run in which every prompt is answered and every awaited call or
\* process settles: a step of main() that can be taken is eventually taken
SpecLive == InitLive /\ [][Next]_vars /\ WF_vars(Next)

-----------------------------------------------------------------------------
(* Properties *)

Logged(level, msg) == \E i \in DOMAIN log : log[i] = Line(level, msg)

Called(op, path) == \E i \in DOMAIN fsCalls : fsCalls[i] = Call(op, path)

\* the run is past the check of lines 55-63 with a resolved target
PastValidation ==
    /\ IsAbsolute(targetDir)
    /\ pc \notin {"ReadArgv", "AskTarget", "ResolveTarget", "ValidateTarget"}

\* the template copy of lines 90-102 rejected: it was the last fs call made
\* and the run did not go on to the ignore-file fixup
CopyFailed ==
    /\ fsCalls # <<>>
    /\ fsCalls[Len(fsCalls)] = Call("copy", targetDir)
    /\ pc # "GitignoreFixup"

AnyPromptCancelled ==
    \/ response = CancelSymbol
    \/ shouldGitInit = CancelSymbol
    \/ shouldInstall = CancelSymbol
    \/ useReactRouter = CancelSymbol

GitFailed == \E i \in DOMAIN procs : ~IsInstall(procs[i]) /\ procs[i].status = "failed"

InstallFailed == \E i \in DOMAIN procs : IsInstall(procs[i]) /\ procs[i].status = "failed"

\* C1: a target that exists and has an entry when it is validated ends the
\* run with exit code 1, the filesystem as it was, no writing fs call, no
\* template entry copied, no process spawned and no confirmation shown.
C1_DirectoryConflictAborts ==
    (PastValidation /\ IsNonEmptyDir(fsAtStart, targetDir)) =>
        /\ pc = "Terminal"
        /\ exitCode = 1
        /\ fs = fsAtStart
        /\ Writes = {}
        /\ copied = {}
        /\ procs = <<>>
        /\ \A i \in DOMAIN prompts : prompts[i] = "target"

C1_Witness ==
    /\ PastValidation
    /\ IsNonEmptyDir(fsAtStart, targetDir)
    /\ Cardinality(Readdir(fsAtStart, targetDir)) = 1
    /\ pc = "Terminal"

\* C2: when the template copy fails the error is logged, the run ends with
\* exit code 1, every entry the copy had written is still in the target with
\* the template's content, and no process (git init, install) was spawned.
C2_CopyFailureIsFatal ==
    CopyFailed =>
        /\ Logged("error", "copy")
        /\ pc = "Terminal"
        /\ exitCode = 1
        /\ procs = <<>>
        /\ \A r \in copied :
            /\ PathExists(fs, Join(targetDir, r))
            /\ fs[Join(targetDir, r)] = tmpl[r]

C2_Witness ==
    /\ CopyFailed
    /\ copied # {}
    /\ copied # CopySet(tmpl, TEMPLATE_DIR, TRUE)
    /\ shouldGitInit = Bool(TRUE)
    /\ shouldInstall = Bool(TRUE)
    /\ pc = "Terminal"

\* C3: in a second or later run, a target that is non-empty when the run
\* starts makes the run abort with exit code 1 without a writing fs call,
\* and the target's contents are what they were when the run started.
C3_RerunAborts ==
    (runs > 1 /\ PastValidation /\ IsNonEmptyDir(fsAtStart, targetDir)) =>
        /\ pc = "Terminal"
        /\ exitCode = 1
        /\ Logged("error", "Aborting")
        /\ Writes = {}
        /\ Subtree(fs, targetDir) = Subtree(fsAtStart, targetDir)

\* a second run against a target an earlier run materialized the template into
C3_Witness ==
    /\ runs > 1
    /\ PastValidation
    /\ pc = "Terminal"
    /\ PathExists(fsAtStart, Join(targetDir, <<"src", "App.tsx">>))
    /\ PathExists(fs, Join(targetDir, <<"package.json">>))
    /\ fs[Join(targetDir, <<"package.json">>)] = "T_package_json"

\* C4: a run in which any prompt returned the cancel symbol ends with exit
\* code 1, having copied nothing and spawned no process.
C4_CancelAborts ==
    (pc = "Terminal" /\ AnyPromptCancelled) =>
        /\ exitCode = 1
        /\ copied = {}
        /\ ~Called("copy", targetDir)
        /\ procs = <<>>

C6_DefaultIsCwd ==
    (pc = "Terminal" /\ ~Truthy(argv2) /\ response = Str(<<>>)
        /\ ~IsNonEmptyDir(fsAtStart, Cwd)) =>
        /\ targetDir = Cwd
        /\ Called("ensureDir", Cwd)

\* C7: an I/O failure while the add-on is injected is logged and the run
\* goes on: it ends with exit code 0 and the next-steps block.
C7_AddonFailureNonFatal ==
    (pc = "Terminal" /\ Logged("error", "addon")) =>
        /\ exitCode = 0
        /\ nextSteps # <<>>

\* C8: when the add-on is selected and its source is missing, the install
\* step spawns the base install command only.
C8_MissingAddonAsUnselected ==
    (Truthy(useReactRouter) /\ ~addonSrc /\ Logged("warn", "Router template not found")) =>
        /\ Len(InstallProcs) <= 1
        /\ \A i \in DOMAIN InstallProcs :
            InstallProcs[i].cmd = InstallCommands(packageManager, Bool(FALSE))[i]

\* C9: a failed install command is the last process spawned, its failure is
\* logged, and the run goes on to the next-steps block and exit code 0.
C9_InstallFailureStopsPlan ==
    \A i \in DOMAIN procs :
        (IsInstall(procs[i]) /\ procs[i].status = "failed") =>
            /\ i = Len(procs)
            /\ Logged("error", "install")
            /\ pc \in {"Report", "Terminal"}
            /\ pc = "Terminal" => (exitCode = 0 /\ nextSteps # <<>> /\ Logged("info", "Next steps:"))

\* the base install command failed with two more commands planned
C9_Witness ==
    /\ pc = "Terminal"
    /\ InstallFailed
    /\ Len(InstallProcs) = 1
    /\ Len(InstallCommands(packageManager, useReactRouter)) > 1

\* C10: when git init fails the failure is logged and the run goes on: the
\* materialized files stay as they were, the install commands are spawned
\* when install was selected, and the run ends with the next-steps block and
\* exit code 0.
C10_GitFailureNonFatal ==
    GitFailed =>
        /\ Logged("error", "git")
        /\ pc \in {"Install", "InstallWait", "Report", "Terminal"}
        /\ \A p \in DOMAIN materialized : PathExists(fs, p) /\ fs[p] = materialized[p]
        /\ pc = "Terminal" =>
            /\ exitCode = 0
            /\ nextSteps # <<>>
            /\ Truthy(shouldInstall) => Len(InstallProcs) >= 1

C10_Witness ==
    /\ GitFailed
    /\ shouldInstall = Bool(TRUE)
    /\ Len(InstallProcs) >= 1
    /\ pc = "Terminal"

\* the tool a user agent names: its characters up to the first "/"
AgentName(ua) ==
    LET c == Chars(ua)
        slashes == { i \in DOMAIN c : c[i] = "/" }
    IN  IF slashes = {} THEN c
        ELSE SubSeq(c, 1, (CHOOSE i \in slashes : \A j \in slashes : i <= j) - 1)

\* detectPackageManager has returned in this run
Detected == packageManager # ""

\* C11 as stated: a hint that names any of the four managers decides the
\* result, whatever lockfiles exist.
C11_HintAlwaysWins ==
    Detected =>
        \A m \in PackageManagers :
            AgentName(userAgent) = Chars(m) => packageManager = m

\* C11 as amended: a hint that contains pnpm, yarn or bun decides the result
\* (the first of the three it contains, in that order), whatever lockfiles
\* exist.
C11_MatchingHintWins ==
    Detected =>
        /\ Includes(userAgent, "pnpm") => packageManager = "pnpm"
        /\ (~Includes(userAgent, "pnpm") /\ Includes(userAgent, "yarn")) => packageManager = "yarn"
        /\ (~Includes(userAgent, "pnpm") /\ ~Includes(userAgent, "yarn") /\ Includes(userAgent, "bun"))
              => packageManager = "bun"

\* a pnpm hint together with yarn.lock in the working directory
C11_Witness ==
    /\ Detected
    /\ userAgent = "pnpm/8.6.0"
    /\ LockExists(fs, "yarn.lock")
    /\ packageManager = "pnpm"

\* the lockfiles in probing order, each with its manager
LockfileOrder ==
    << [file |-> "pnpm-lock.yaml", pm |-> "pnpm"],
       [file |-> "yarn.lock", pm |-> "yarn"],
       [file |-> "bun.lock", pm |-> "bun"] >>

\* the manager of the first lockfile of the order that exists in the working
\* directory of filesystem f, npm when there is none
FirstLockfileManager(f) ==
    LET present == { i \in DOMAIN LockfileOrder : Join(Cwd, <<LockfileOrder[i].file>>) \in DOMAIN f }
    IN  IF present = {} THEN "npm"
        ELSE LockfileOrder[CHOOSE i \in present : \A j \in present : i <= j].pm

\* C12: with no matching hint, detection returns npm when a probe threw, and
\* otherwise the manager of the first lockfile present in the order
\* pnpm-lock.yaml, yarn.lock, bun.lock, npm when none is present; detection
\* always returns, and the run goes on.
C12_LockfileFallback ==
    (Detected /\ ~HintMatches(userAgent)) =>
        /\ packageManager = (IF probeThrew # "" THEN "npm" ELSE FirstLockfileManager(fsAtStart))
        /\ packageManager \in PackageManagers
        /\ \A i \in DOMAIN log : log[i].level # "console.error"

\* yarn.lock and bun.lock present, pnpm-lock.yaml absent, no probe threw
C12_Witness ==
    /\ Detected
    /\ userAgent = ""
    /\ probeThrew = ""
    /\ ~LockExists(fsAtStart, "pnpm-lock.yaml")
    /\ LockExists(fsAtStart, "yarn.lock")
    /\ LockExists(fsAtStart, "bun.lock")
    /\ packageManager = "yarn"

\* the install plan as the claim words it, per manager m and add-on flag a
BaseVerb(m) == IF m = "yarn" THEN "add" ELSE "install"

AddVerb(m) == IF m = "npm" THEN "install" ELSE "add"

DevFlag(m) ==
    CASE m \in {"yarn", "pnpm"} -> "-D"
      [] m = "bun"              -> "-d"
      [] m = "npm"              -> "--save-dev"

ExpectedPlan(m, a) ==
    <<<<m, BaseVerb(m)>>>>
    \o (IF a THEN << <<m, AddVerb(m), "react-router">>,
                     <<m, AddVerb(m), DevFlag(m), "@types/react-router">> >>
        ELSE <<>>)

\* C13: for every manager and boolean add-on flag the install commands
\* spawned are, in order, a prefix of the expected plan (the whole plan when
\* the install block ran to its end), every command invokes the detected
\* manager in the target directory, and the plan has 1 command without the
\* add-on and 3 with it.
C13_InstallPlan ==
    (Detected /\ useReactRouter.kind = "boolean") =>
        LET plan == ExpectedPlan(packageManager, useReactRouter = Bool(TRUE))
        IN  /\ Len(plan) = (IF useReactRouter = Bool(TRUE) THEN 3 ELSE 1)
            /\ Len(InstallProcs) <= Len(plan)
            /\ \A i \in DOMAIN InstallProcs :
                /\ InstallProcs[i].cmd = plan[i]
                /\ InstallProcs[i].cmd[1] = packageManager
                /\ InstallProcs[i].cwd = targetDir
            /\ (pc \in {"Report", "Terminal"} /\ Truthy(shouldInstall) /\ ~InstallFailed
                    /\ materialized # <<>>)
                  => Len(InstallProcs) = Len(plan)

\* bun with the add-on: all three commands ran
C13_Witness ==
    /\ pc = "Terminal"
    /\ packageManager = "bun"
    /\ useReactRouter = Bool(TRUE)
    /\ ~InstallFailed
    /\ Len(InstallProcs) = 3
    /\ InstallProcs[3].cmd = <<"bun", "add", "-d", "@types/react-router">>

\* the names of the template that are node_modules or end with lock.json,
\* .lock or .yaml
RejectedNames ==
    {"node_modules", "package-lock.json", "yarn.lock", "pnpm-lock.yaml", "bun.lock", "config.yaml"}

\* the template copy of lines 90-102 completed in this run
TemplateCopied ==
    /\ Called("copy", targetDir)
    /\ ~CopyFailed
    /\ pc # "CopyTemplate"

\* C14: the filter rejects an entry exactly when its basename is
\* node_modules or ends with lock.json, .lock or .yaml, whatever directory
\* the entry is in; so a copy that has just completed wrote a top-level
\* entry of the template exactly when its name is not one of those.
C14_FilterByBasename ==
    (TemplateCopied /\ pc = "GitignoreFixup") =>
        \A r \in DOMAIN tmpl :
            /\ ShouldCopy(Join(TEMPLATE_DIR, r)) <=> (Basename(r) \notin RejectedNames)
            /\ ShouldCopy(Join(TEMPLATE_DIR, r)) <=> ShouldCopy(<<Basename(r)>>)
            /\ Len(r) = 1 => (r \in copied <=> Basename(r) \notin RejectedNames)

\* a completed copy that wrote package.json and left out the four lockfiles
\* and the ordinary config.yaml
C14_Witness ==
    /\ TemplateCopied
    /\ <<"package.json">> \in copied
    /\ {<<"package-lock.json">>, <<"yarn.lock">>, <<"pnpm-lock.yaml">>, <<"bun.lock">>,
        <<"config.yaml">>} \subseteq DOMAIN tmpl
    /\ {<<"package-lock.json">>, <<"yarn.lock">>, <<"pnpm-lock.yaml">>, <<"bun.lock">>,
        <<"config.yaml">>} \cap copied = {}

\* the ignore-file fixup of lines 104-114 completed in this run
FixupDone ==
    /\ Called("pathExists", Join(targetDir, <<"git-ignore.txt">>))
    /\ ~Logged("error", "fixup")

\* C15: after the fixup, a template with git-ignore.txt at its root leaves a
\* .gitignore with exactly that file's content at the target root and no
\* git-ignore.txt there; a template without it makes the fixup read, write
\* and remove nothing.
C15_GitignoreFixup ==
    FixupDone =>
        LET staged == Join(targetDir, <<"git-ignore.txt">>)
            ignore == Join(targetDir, <<".gitignore">>)
        IN  IF <<"git-ignore.txt">> \in DOMAIN tmpl
            THEN /\ PathExists(fs, ignore)
                 /\ fs[ignore] = tmpl[<<"git-ignore.txt">>]
                 /\ ~PathExists(fs, staged)
            ELSE /\ ~Called("readFile", staged)
                 /\ ~Called("writeFile", ignore)
                 /\ ~Called("remove", staged)
                 /\ ~PathExists(fs, ignore)
                 /\ ~PathExists(fs, staged)

C15_Witness ==
    /\ FixupDone
    /\ <<"git-ignore.txt">> \in DOMAIN tmpl
    /\ fs[Join(targetDir, <<".gitignore">>)] = "T_gitignore"
    /\ pc = "Terminal"
    /\ exitCode = 0

\* the try block of lines 89-140 ran to its end in this run
TryDone == materialized # <<>>

\* C16: once the try block has ended with the add-on selected: if the add-on
\* source exists, <target>/src/routes holds the whole add-on subtree and
\* <target>/src/App.tsx holds the fixed body; if it does not exist, a warning
\* was logged, nothing was copied to <target>/src/routes and App.tsx is as
\* the template copy wrote it.
C16_AddonInjection ==
    (TryDone /\ useReactRouter = Bool(TRUE)) =>
        LET routes == Join(targetDir, <<"src", "routes">>)
            app == Join(targetDir, <<"src", "App.tsx">>)
        IN  IF addonSrc
            THEN /\ PathExists(fs, routes)
                 /\ fs[routes] = Dir
                 /\ Subtree(fs, routes) = AddonTree
                 /\ fs[app] = NewAppContent
            ELSE /\ Logged("warn", "Router template not found")
                 /\ ~Called("copy", routes)
                 /\ ~Called("writeFile", app)
                 /\ ~PathExists(fs, routes)
                 /\ fs[app] = tmpl[<<"src", "App.tsx">>]

C16_Witness ==
    /\ TryDone
    /\ useReactRouter = Bool(TRUE)
    /\ addonSrc
    /\ fs[Join(targetDir, <<"src", "routes", "config.yaml">>)] = "R_config_yaml"
    /\ fs[Join(targetDir, <<"src", "App.tsx">>)] = NewAppContent
    /\ pc = "Terminal"

\* C17: when the add-on is declined, nothing is copied to <target>/src/routes
\* and no step writes <target>/src/App.tsx after the template copy: from the
\* copy to the end of the run the file has the template's content.
C17_AddonDeclinedLeavesApp ==
    (TemplateCopied /\ useReactRouter = Bool(FALSE)) =>
        LET routes == Join(targetDir, <<"src", "routes">>)
            app == Join(targetDir, <<"src", "App.tsx">>)
        IN  /\ ~Called("pathExists", RouterSourcePath)
            /\ ~Called("copy", routes)
            /\ ~Called("writeFile", app)
            /\ ~PathExists(fs, routes)
            /\ PathExists(fs, app)
            /\ fs[app] = tmpl[<<"src", "App.tsx">>]

C17_Witness ==
    /\ TemplateCopied
    /\ useReactRouter = Bool(FALSE)
    /\ addonSrc
    /\ fs[Join(targetDir, <<"src", "App.tsx">>)] = "T_App_tsx"
    /\ pc = "Terminal"
    /\ exitCode = 0

\* the path the user gave: the argument, or else the answer to the prompt
GivenPath == IF Truthy(argv2) THEN argv2.value ELSE response.value

\* C18: git init is spawned only after the git-init confirmation returned
\* true and install commands only after the install confirmation returned
\* true; a run in which both returned false and the try block ended spawned
\* no process, copied the template into the resolved target and exits 0.
C18_ProcessesOnlyWhenConfirmed ==
    /\ (\E i \in DOMAIN procs : ~IsInstall(procs[i])) => shouldGitInit = Bool(TRUE)
    /\ InstallProcs # <<>> => shouldInstall = Bool(TRUE)
    /\ (shouldGitInit = Bool(FALSE) /\ shouldInstall = Bool(FALSE) /\ TryDone) =>
        /\ procs = <<>>
        /\ targetDir = Resolve(GivenPath)
        /\ copied = CopySet(tmpl, TEMPLATE_DIR, TRUE)
        /\ pc = "Terminal" => exitCode = 0

\* the given path taken against the current working directory
ExpectedTarget == IF GivenPath = <<".">> THEN Cwd ELSE Cwd \o GivenPath

\* line 52 has run in this run
TargetResolved ==
    /\ pc \notin {"ReadArgv", "AskTarget", "ResolveTarget"}
    /\ GivenPath # <<>>

\* C19: from its resolution on, targetDir is the given path made absolute
\* against the working directory; it is the path that is validated (the
\* first fs call, and readdir), created (ensureDir), the destination of the
\* first copy, the argument of git init and the cwd of every install command.
C19_OneTargetPath ==
    TargetResolved =>
        /\ IsAbsolute(targetDir)
        /\ targetDir = ExpectedTarget
        /\ fsCalls # <<>> => fsCalls[1] = Call("pathExists", targetDir)
        /\ \A i \in DOMAIN fsCalls :
            /\ fsCalls[i].op \in {"readdir", "ensureDir"} => fsCalls[i].path = targetDir
            /\ (fsCalls[i].op = "copy" /\ \A j \in 1..(i - 1) : fsCalls[j].op # "copy")
                  => fsCalls[i].path = targetDir
        /\ \A i \in DOMAIN procs :
            IF IsInstall(procs[i])
            THEN procs[i].cwd = targetDir
            ELSE procs[i].cmd = <<"git", "init", targetDir>>

\* a full run into my-project with git init and install
C19_Witness ==
    /\ pc = "Terminal"
    /\ argv2 = Str(<<"my-project">>)
    /\ targetDir = ProjectDir
    /\ Called("ensureDir", ProjectDir)
    /\ Called("copy", ProjectDir)
    /\ \E i \in DOMAIN procs : ~IsInstall(procs[i])
    /\ InstallProcs # <<>>

\* the base install command of this run exited successfully
DependenciesInstalled == InstallProcs # <<>> /\ InstallProcs[1].status = "ok"

HasLine(line) == \E i \in DOMAIN nextSteps : nextSteps[i] = line

\* C20: in the next-steps block a cd line appears only when the target is
\* not the current working directory, the `<manager> install` line appears
\* exactly when the dependencies were not installed during the run, and the
\* `<manager> run dev` line always appears.
C20_TailoredNextSteps ==
    (pc = "Terminal" /\ nextSteps # <<>>) =>
        /\ (\E i \in DOMAIN nextSteps : nextSteps[i][1] = "cd") => targetDir # Cwd
        /\ HasLine(<<packageManager, "install">>) <=> ~DependenciesInstalled
        /\ HasLine(<<packageManager, "run", "dev">>)


\* the step of main() an fs-extra call belongs to: 1 validation (lines
\* 55-56), 2 creation (line 65), 3 detection (lines 27-29), 4 template copy
\* (line 90), 5 ignore-file fixup (lines 107-113), 6 add-on injection (lines
\* 122-135); the lockfile names of detection are the only relative paths
\* the program passes to fs-extra
StepOfCall(c) ==
    IF c.op = "readdir" \/ (c.op = "pathExists" /\ c.path = targetDir) THEN 1
    ELSE IF c.op = "ensureDir" THEN 2
    ELSE IF c.op = "pathExists" /\ ~IsAbsolute(c.path) THEN 3
    ELSE IF c.op = "copy" /\ c.path = targetDir THEN 4
    ELSE IF c.path \in {Join(targetDir, <<"git-ignore.txt">>), Join(targetDir, <<".gitignore">>)} THEN 5
    ELSE 6

IsConfirm(p) == p # "target"

\* the confirmation prompts shown so far in this run
Confirms == SelectSeq(prompts, IsConfirm)

Running(p) == p.status = "running"

\* C21: the steps of a run occur in one fixed order and never overlap.  The
\* text prompt, if any, comes first; the fs calls are made in the order
\* validation, creation, detection, template copy, ignore-file fixup, add-on
\* injection; the confirmations are shown in the order git-init, install,
\* add-on, after the target was validated and created and before anything of
\* the template is written or any process spawned; a process is spawned only
\* once the try block has ended, git init before every install command; at
\* most one process is running, the last one spawned, and exactly while
\* main() awaits it; the next-steps block is printed when no process is
\* running and every selected step has been through.
C21_FixedStepOrder ==
    /\ \A i \in DOMAIN prompts : prompts[i] = "target" => i = 1
    /\ (fsCalls # <<>> /\ ~Truthy(argv2)) => (prompts # <<>> /\ prompts[1] = "target")
    /\ Confirms = SubSeq(<<"gitInit", "install", "reactRouter">>, 1, Len(Confirms))
    /\ Confirms # <<>> => Called("ensureDir", targetDir)
    /\ \A i \in 1..(Len(fsCalls) - 1) :
        StepOfCall(fsCalls[i]) <= StepOfCall(fsCalls[i + 1])
    /\ Len(Confirms) < 3 =>
        /\ \A i \in DOMAIN fsCalls : StepOfCall(fsCalls[i]) <= 2
        /\ copied = {}
        /\ packageManager = ""
        /\ procs = <<>>
    /\ procs # <<>> => TryDone
    /\ \A i \in DOMAIN procs :
        /\ Running(procs[i]) => i = Len(procs)
        /\ ~IsInstall(procs[i]) => i = 1
    /\ (\E i \in DOMAIN procs : Running(procs[i])) <=> pc \in {"GitInitWait", "InstallWait"}
    /\ nextSteps # <<>> =>
        /\ pc = "Terminal"
        /\ TryDone
        /\ \A i \in DOMAIN procs : ~Running(procs[i])
        /\ Truthy(shouldGitInit) => (procs # <<>> /\ ~IsInstall(procs[1]))
        /\ Truthy(shouldInstall) => InstallProcs # <<>>

\* a run that went through every step: the text prompt, the three
\* confirmations, the fixup, the add-on injection, git init, three install
\* commands and the report
C21_Witness ==
    /\ pc = "Terminal"
    /\ nextSteps # <<>>
    /\ Len(prompts) = 4
    /\ \E i \in DOMAIN fsCalls : StepOfCall(fsCalls[i]) = 3
    /\ Called("remove", Join(targetDir, <<"git-ignore.txt">>))
    /\ Called("writeFile", Join(targetDir, <<"src", "App.tsx">>))
    /\ Len(procs) = 4
    /\ ~IsInstall(procs[1])
    /\ \A i \in DOMAIN procs : procs[i].status = "ok"


\* the filter accepts the entry r of the template and every directory above
\* it below the template root
PassesFilter(r) ==
    \A k \in 1..Len(r) : ShouldCopy(Join(TEMPLATE_DIR, SubSeq(r, 1, k)))

AtMostOnce ==
    /\ Cardinality({ i \in DOMAIN fsCalls : fsCalls[i] = Call("copy", targetDir) }) <= 1
    /\ Cardinality({ i \in DOMAIN procs : ~IsInstall(procs[i]) }) <= 1
    /\ Len(InstallProcs) <= Len(InstallCommands(packageManager, useReactRouter))
    /\ \A i, j \in DOMAIN InstallProcs :
        i # j => InstallProcs[i].cmd # InstallProcs[j].cmd

\* the last process spawned has not exited
Awaiting == procs # <<>> /\ Running(procs[Len(procs)])

\* C23: when every prompt is answered and every awaited call and process
\* settles, the run reaches the terminal state and stays there, with exit
\* code 0 or 1; the copy, git init and each planned install command are
\* executed at most once; a run is never terminal while a process it spawned
\* is running, and the only step main() takes while it awaits a process is
\* the one in which that process exits, so a process that never exits keeps
\* the run from ever reaching the terminal state.
C23_RunTerminates ==
    /\ <>[](pc = "Terminal" /\ exitCode \in {0, 1})
    /\ [](AtMostOnce)
    /\ [](Awaiting => pc # "Terminal")
    /\ [][Awaiting => ~Running(procs'[Len(procs)])]_vars

\* a finished run in which the copy was made once, git init ran once and
\* failed, the base install succeeded and the second install command failed
C23_Witness ==
    /\ pc = "Terminal"
    /\ exitCode = 0
    /\ Cardinality({ i \in DOMAIN fsCalls : fsCalls[i] = Call("copy", targetDir) }) = 1
    /\ Len(procs) = 3
    /\ procs[1].status = "failed"
    /\ ~IsInstall(procs[1])
    /\ procs[2].status = "ok"
    /\ procs[3].status = "failed"

IsProbe(c) == StepOfCall(c) = 3

\* the lockfile probes made so far in this run
Probes == SelectSeq(fsCalls, IsProbe)

\* the probes that threw during the detection of this run
ThrownSet == IF probeThrew = "" THEN {} ELSE {probeThrew}

\* C24: the package manager is detected exactly once per run, before the
\* template copy, and that value is used unchanged.  Nothing of the template
\* is written, no process spawned and no report printed before detection;
\* from detection on, packageManager is what detectPackageManager returned
\* for the hint and the filesystem the run started with, whatever the
\* filesystem holds by now; the lockfile probes made are those of that one
\* detection, each lockfile probed at most once and before the copy; every
\* install command invokes that manager and every line of the next-steps
\* block other than the cd line names it.
C24_SingleDetection ==
    /\ (Called("copy", targetDir) \/ copied # {} \/ procs # <<>> \/ nextSteps # <<>>)
          => Detected
    /\ ~Detected => Probes = <<>>
    /\ Detected =>
        /\ packageManager \in PackageManagers
        /\ packageManager = detectPackageManager(userAgent, fsAtStart, ThrownSet)
        /\ Probes = ProbeCalls(userAgent, fsAtStart, ThrownSet)
        /\ \A i \in { k \in DOMAIN fsCalls : IsProbe(fsCalls[k]) } :
            \A j \in { k \in DOMAIN fsCalls : fsCalls[k].op = "copy" } : i < j
        /\ \A i \in DOMAIN InstallProcs : InstallProcs[i].cmd[1] = packageManager
        /\ \A i \in DOMAIN nextSteps :
            nextSteps[i][1] = "cd" \/ nextSteps[i][1] = packageManager

\* a run into the current working directory that detected yarn from the
\* hint, wrote the template, the routes and node_modules there, ran the three
\* yarn commands and printed the report
C24_Witness ==
    /\ pc = "Terminal"
    /\ targetDir = Cwd
    /\ packageManager = "yarn"
    /\ fs # fsAtStart
    /\ PathExists(fs, Join(Cwd, <<"package.json">>))
    /\ PathExists(fs, Join(Cwd, <<"node_modules">>))
    /\ Len(InstallProcs) = 3
    /\ HasLine(<<"yarn", "run", "dev">>)

====
